---- MODULE Spec2Model ----
(***************************************************************************)
(* Model of the lexical search engine of fruitful-search:                  *)
(*   scripts/build_index.py  main()    the Builder (one run = one process) *)
(*   core/db.py              search()  the Query Engine                    *)
(* The store is one SQLite file holding the FTS5 table docs, the table     *)
(* meta (PRIMARY KEY pid) and the table docs_map (PRIMARY KEY rowid).      *)
(*                                                                         *)
(* Texts (names, queries) are sequences of words; a stored text is its     *)
(* words joined by single spaces.  Prices are counted in hundredths.       *)
(***************************************************************************)
EXTENDS Integers, Sequences, FiniteSets, TLC

(***************************************************************************)
(* Bounds of the model.                                                    *)
(***************************************************************************)
MaxDocs == 2        \* documents the store may hold over all runs
MaxRuns == 2        \* Builder runs
MaxQueryLen == 2    \* words of a query
MaxLimit == 1       \* largest limit passed to search
MaxScore == 1       \* relevance scores range over 0..MaxScore
MaxChars == 4       \* characters of a text given to the tokenizer
MaxArgs == 2        \* positional arguments of one CLI invocation
MaxRecords == 3     \* records of a catalog with repeated ids
MaxTokens == 3      \* words of a query that may hold operator words
MaxLines == 2       \* lines read by one interactive session

(***************************************************************************)
(* JSON values of a catalog record: absent, a number or a string.          *)
(***************************************************************************)
Missing == [kind |-> "missing", n |-> 0, s |-> ""]
IntV(i) == [kind |-> "int", n |-> i, s |-> ""]
StrV(t) == [kind |-> "str", n |-> 0, s |-> t]

\* Python truthiness of a JSON value: absent (None), 0 and "" are falsy.
Truthy(v) == \/ v.kind = "int" /\ v.n # 0
             \/ v.kind = "str" /\ v.s # ""

\* The strings of the model that int() parses, with their values.
IntLiteral == [t \in {"0", "1", "2", "42"} |->
                 CASE t = "0" -> 0 [] t = "1" -> 1 [] t = "2" -> 2 [] t = "42" -> 42]
\* Strings for which str.isdigit() holds although int() rejects them.
SuperscriptDigits == {"²"}
\* The strings of the model that float() parses, in hundredths.
FloatLiteral == [t \in {"0", "1", "2", "42", "12.34"} |->
                   CASE t = "12.34" -> 1234 [] OTHER -> 100 * IntLiteral[t]]

\* str(value).isdigit() for value = r.get("product_id", "0")
IsDigit(v) == CASE v.kind = "missing" -> TRUE
                [] v.kind = "int" -> v.n >= 0
                [] OTHER -> v.s \in DOMAIN IntLiteral \cup SuperscriptDigits

\* int(r.get("product_id", 0)) raises ValueError on a superscript digit.
PidRaises(v) == IsDigit(v) /\ v.kind = "str" /\ v.s \in SuperscriptDigits

NoPid == -1
\* pid = int(...) if str(...).isdigit() else None
ExtractPid(v) == CASE ~IsDigit(v) -> NoPid
                   [] v.kind = "missing" -> 0
                   [] v.kind = "int" -> v.n
                   [] OTHER -> IntLiteral[v.s]

\* try: price = float(r.get("product_price", 0) or 0) except: price = 0.0
CoercePrice(v) == CASE ~Truthy(v) -> 0
                    [] v.kind = "int" -> v.n
                    [] v.s \in DOMAIN FloatLiteral -> FloatLiteral[v.s]
                    [] OTHER -> 0

\* try: stock = int(r.get("product_stock", 0) or 0) except: stock = 0
CoerceStock(v) == CASE ~Truthy(v) -> 0
                    [] v.kind = "int" -> v.n
                    [] v.s \in DOMAIN IntLiteral -> IntLiteral[v.s]
                    [] OTHER -> 0

\* core/db.py _coerce_int: int(value), else int(float(value)), else 0
coerce_int(v) == CASE v.kind = "int" -> v.n
                   [] v.kind = "str" /\ v.s \in DOMAIN IntLiteral -> IntLiteral[v.s]
                   [] v.kind = "str" /\ v.s \in DOMAIN FloatLiteral -> FloatLiteral[v.s] \div 100
                   [] OTHER -> 0

(***************************************************************************)
(* Texts and the two tokenizers.                                           *)
(***************************************************************************)
\* Words a text of the model is made of; the last two hold no ASCII
\* letter or digit.
Words == {"a", "b", "NOT", "!", " "}
Punctuation == {"!", " "}

\* FTS5's unicode61 tokenizer folds case when it indexes a document and
\* when it reads a query term.
Fold(w) == IF w = "NOT" THEN "not" ELSE w

RECURSIVE Flatten(_)
Flatten(ss) == IF ss = <<>> THEN <<>> ELSE Head(ss) \o Flatten(Tail(ss))

\* A pattern that splits on whitespace only: punctuation becomes a token.
WordTokens_keeps_punctuation(w) == IF w = " " THEN <<>> ELSE <<w>>

\* re.findall(r"[0-9A-Za-z]+", word) for one word of the model
WordTokens(w) == CASE w \in Punctuation \cup {"'"} -> <<>>
                   [] w = ":open" -> <<"open">>
                   [] w = ":q" -> <<"q">>
                   [] w = ":x" -> <<"x">>
                   [] OTHER -> <<w>>

\* core/db.py _sanitize_for_fts: the maximal alphanumeric runs of the query
sanitize_for_fts(query) == Flatten([i \in 1..Len(query) |-> WordTokens(query[i])])

\* The terms FTS5 indexes for one stored text.
IndexTerms(text) == {Fold(t) : t \in {x \in {text[i] : i \in 1..Len(text)} : x \notin Punctuation}}

\* " ".join(extra_parts) over the parts that are truthy
JoinParts(a, b) == a \o b

(***************************************************************************)
(* core/db.py _sanitize_for_fts() character by character: a text is a      *)
(* sequence of characters, a token a non-empty sequence of characters.     *)
(***************************************************************************)
Chars == {"a", "Z", "7", " ", "-", "é"}
AsciiAlnum == {"a", "Z", "7"}       \* the class [0-9A-Za-z]

\* Split on spaces, then blank out what is left of the other characters:
\* a token may then hold a space.
RECURSIVE scan_split_then_clean(_, _, _)
scan_split_then_clean(text, cur, acc) ==
    LET done == IF cur = <<>> THEN acc ELSE Append(acc, cur)
    IN IF text = <<>> THEN done
       ELSE IF Head(text) = " " THEN scan_split_then_clean(Tail(text), <<>>, done)
       ELSE IF Head(text) \in AsciiAlnum
            THEN scan_split_then_clean(Tail(text), Append(cur, Head(text)), acc)
       ELSE scan_split_then_clean(Tail(text), Append(cur, " "), acc)

\* re.findall(r"[0-9A-Za-z]+", text) scanning left to right: cur is the run
\* being read, acc the runs found.
RECURSIVE scan(_, _, _)
scan(text, cur, acc) ==
    LET done == IF cur = <<>> THEN acc ELSE Append(acc, cur)
    IN IF text = <<>> THEN done
       ELSE IF Head(text) \in AsciiAlnum
            THEN scan(Tail(text), Append(cur, Head(text)), acc)
       ELSE scan(Tail(text), <<>>, done)

findall_alnum(text) == scan(text, <<>>, <<>>)

\* " ".join(tokens)
RECURSIVE join_space(_)
join_space(tokens) ==
    IF tokens = <<>> THEN <<>>
    ELSE IF Len(tokens) = 1 THEN tokens[1]
    ELSE tokens[1] \o <<" ">> \o join_space(Tail(tokens))

(***************************************************************************)
(* Catalog records (scripts/build_index.py reads them with r.get).         *)
(***************************************************************************)
Product(id, name, alt, price, stock, url) ==
    [product_id |-> id, product_name |-> name, product_model |-> <<>>,
     product_mpn |-> <<>>, product_manufacturer |-> <<>>,
     product_master_category |-> <<>>, product_image_alt |-> alt,
     product_price |-> price, product_stock |-> stock, product_url |-> url,
     date_added |-> "", discontinue_status |-> ""]

\* A JSON number in a price field is written in hundredths: IntV(1234) is 12.34.
RecFeather == Product(StrV("1"), <<"a", "b">>, <<>>, IntV(1234), IntV(42), "u1")
RecText == Product(IntV(2), <<"b">>, <<"a">>, StrV("12.34"), StrV("in stock"), "u2")
RecDup == Product(StrV("1"), <<"a", "NOT", "b">>, <<>>, IntV(500), IntV(2), "u3")
RecNoId == Product(Missing, <<"a">>, <<>>, StrV("free"), Missing, "")
RecBadId == Product(StrV("x"), <<"b">>, <<>>, IntV(100), IntV(1), "u5")
RecSuper == Product(StrV("²"), <<"a">>, <<>>, IntV(100), IntV(1), "u6")

Records == {RecFeather, RecText, RecDup, RecNoId, RecBadId, RecSuper}

RECURSIVE SeqsUpTo(_, _)
SeqsUpTo(S, n) == IF n = 0 THEN {<<>>}
                  ELSE LET shorter == SeqsUpTo(S, n - 1)
                       IN shorter \cup {Append(s, x) : s \in shorter, x \in S}

\* The raw JSON files the model reads: short lists of records.
Catalogs(n) == SeqsUpTo(Records, n)

(***************************************************************************)
(* The FTS5 query language, as far as alphanumeric tokens reach it: the    *)
(* barewords AND, OR and NOT are binary operators (NOT binds tightest,     *)
(* then AND, then OR), juxtaposed terms are an implicit AND, and a quoted  *)
(* token is always a term.                                                 *)
(***************************************************************************)
Operators == {"AND", "OR", "NOT"}

\* FTS5 rejects an expression in which an operator lacks an operand.
SyntaxOk(ts) == /\ Len(ts) > 0
                /\ ts[1] \notin Operators
                /\ ts[Len(ts)] \notin Operators
                /\ \A i \in 1..(Len(ts) - 1) :
                      ts[i] \in Operators => ts[i + 1] \notin Operators

RECURSIVE SplitOn(_, _)
SplitOn(ts, op) ==
    IF \E i \in 1..Len(ts) : ts[i] = op
    THEN LET i == CHOOSE k \in 1..Len(ts) :
                     ts[k] = op /\ \A j \in 1..(k - 1) : ts[j] # op
         IN <<SubSeq(ts, 1, i - 1)>> \o SplitOn(SubSeq(ts, i + 1, Len(ts)), op)
    ELSE <<ts>>

\* Does a document with index terms `terms` match the bareword expression?
MatchAllTerms(terms, ts) == \A i \in 1..Len(ts) : Fold(ts[i]) \in terms
MatchNot(terms, ts) == LET parts == SplitOn(ts, "NOT")
                       IN /\ MatchAllTerms(terms, parts[1])
                          /\ \A k \in 2..Len(parts) : ~MatchAllTerms(terms, parts[k])
MatchAnd(terms, ts) == LET parts == SplitOn(ts, "AND")
                       IN \A k \in 1..Len(parts) : MatchNot(terms, parts[k])
MatchExpr(terms, ts) == LET parts == SplitOn(ts, "OR")
                        IN \E k \in 1..Len(parts) : MatchAnd(terms, parts[k])

\* Does it match "t1" OR "t2" OR ... ?
MatchAnyQuoted(terms, ts) == \E i \in 1..Len(ts) : Fold(ts[i]) \in terms

(***************************************************************************)
(* State.                                                                  *)
(***************************************************************************)
VARIABLES
    fts5,          \* the SQLite build of this environment has FTS5
    db_exists,     \* indexes/lexical/index.sqlite exists
    schema,        \* committed: the tables of the store
    docs,          \* committed: the FTS5 table docs; the rowid is the index
    meta,          \* committed: rows of meta
    docs_map,      \* committed: rows of docs_map
    pc,            \* where the Builder process is
    use_raw_json,  \* Builder: populate from the raw JSON
    rows,          \* Builder: the records loaded from the raw JSON
    count,         \* Builder: records processed so far
    wdocs,         \* Builder's connection: docs inside its open transaction
    wmeta,         \* Builder's connection: meta inside its open transaction
    wmap,          \* Builder's connection: docs_map inside its transaction
    runs,          \* Builder runs started
    exit,          \* how the last Builder run ended
    old,           \* the committed store when the current run started
    \* What the search call that has just returned was given and gave; the
    \* next step of the Builder finds the caller gone and these cleared.
    called,        \* a search call has just returned
    query,         \* its query
    limit,         \* its limit
    results,       \* the list it returned
    error,         \* the exception it raised, or "none"
    fallback,      \* the OR-joined statement was executed
    bm25,          \* the score bm25(docs) gave each matching document
    hits,          \* the docs rowids of the rows it fetched, in order
    handle,        \* what it did with its store handle, in order
    \* One invocation of core/cli.py main() and what it did.
    cli,
    \* The tokenizer applied to a text, then to its space-joined tokens.
    tk_pc,         \* "input", "tokenized" or "retokenized"
    tk_text,       \* the text
    tk_tokens,     \* _sanitize_for_fts(text)
    tk_again,      \* _sanitize_for_fts(" ".join(tokens))
    \* scripts/update_catalog_and_indexes.py and the files its steps share.
    pipe,          \* the pipeline process: its steps, those started, their codes
    raw_json,      \* data/raw/adafruit_catalog.json
    parquet,       \* data/processed/catalog.parquet exists
    deps,          \* pandas and pyarrow are installed
    \* core/cli.py _repl(): the interactive prompt loop.
    repl

vars == <<fts5, db_exists, schema, docs, meta, docs_map, pc, use_raw_json,
          rows, count, wdocs, wmeta, wmap, runs, exit, old,
          called, query, limit, results, error, fallback, bm25, hits, handle,
          cli, tk_pc, tk_text, tk_tokens, tk_again,
          pipe, raw_json, parquet, deps, repl>>

store_vars == <<db_exists, schema, docs, meta, docs_map>>
builder_vars == <<pc, use_raw_json, rows, count, wdocs, wmeta, wmap,
                  runs, exit, old>>
search_vars == <<called, query, limit, results, error, fallback, bm25, hits,
                 handle>>
cli_vars == <<cli>>
tok_vars == <<tk_pc, tk_text, tk_tokens, tk_again>>
pipe_vars == <<pipe, raw_json, parquet, deps>>
repl_vars == <<repl>>

AllTables == {"docs", "meta", "docs_map"}

\* The committed content of the store file.
Store == [exists |-> db_exists, schema |-> schema, docs |-> docs,
          meta |-> meta, docs_map |-> docs_map]
NoStore == [exists |-> FALSE, schema |-> {}, docs |-> <<>>, meta |-> {},
            docs_map |-> {}]

(***************************************************************************)
(* scripts/build_index.py: the statements of the per-record loop.          *)
(***************************************************************************)
\* INSERT INTO docs(name, model, mpn, manufacturer, extra) VALUES(?,?,?,?,?)
InsertDoc(d, r) ==
    Append(d, [name |-> r.product_name, model |-> r.product_model,
               mpn |-> r.product_mpn, manufacturer |-> r.product_manufacturer,
               extra |-> JoinParts(r.product_master_category, r.product_image_alt)])

MetaRow(pid, r) ==
    [pid |-> pid, url |-> r.product_url, price |-> CoercePrice(r.product_price),
     stock |-> IntV(CoerceStock(r.product_stock)), date_added |-> r.date_added,
     discontinue_status |-> r.discontinue_status]

\* INSERT OR IGNORE: the first row of a pid wins.
UpsertMeta_first_wins(m, row) == IF \E x \in m : x.pid = row.pid THEN m ELSE m \cup {row}

\* A plain INSERT into a table without the key: the old row of the pid stays.
UpsertMeta_keeps_old_row(m, row) == m \cup {row}

\* INSERT OR REPLACE INTO meta(...): pid is the PRIMARY KEY
UpsertMeta(m, row) == {x \in m : x.pid # row.pid} \cup {row}

\* INSERT OR REPLACE INTO docs_map(rowid, pid): rowid is the PRIMARY KEY
UpsertMap(dm, rowid, pid) == {x \in dm : x.rowid # rowid} \cup {[rowid |-> rowid, pid |-> pid]}

\* One pass of the loop body over record r, on the connection's view w of
\* the three tables.
ProcessRecord(w, r) ==
    LET pid == ExtractPid(r.product_id)
        d == InsertDoc(w.docs, r)
        rowid == Len(d)
    IN IF pid = NoPid
       THEN [docs |-> d, meta |-> w.meta, docs_map |-> w.docs_map]
       ELSE [docs |-> d, meta |-> UpsertMeta(w.meta, MetaRow(pid, r)),
             docs_map |-> UpsertMap(w.docs_map, rowid, pid)]

(***************************************************************************)
(* core/db.py search(): the statement and the materialisation of rows.     *)
(***************************************************************************)
Queries == SeqsUpTo(Words, MaxQueryLen)
Limits == (-1)..MaxLimit
Scores == 0..MaxScore

\* str.strip(): whitespace at both ends goes.
RECURSIVE LStrip(_)
LStrip(q) == IF q # <<>> /\ Head(q) = " " THEN LStrip(Tail(q)) ELSE q
RECURSIVE RStrip(_)
RStrip(q) == IF q # <<>> /\ q[Len(q)] = " " THEN RStrip(SubSeq(q, 1, Len(q) - 1)) ELSE q
Strip(q) == RStrip(LStrip(q))

\* The terms of a document over its five columns.
DocTerms(d) == IndexTerms(d.name) \cup IndexTerms(d.model) \cup IndexTerms(d.mpn)
               \cup IndexTerms(d.manufacturer) \cup IndexTerms(d.extra)

\* FROM docs d JOIN docs_map dm ON dm.rowid = d.rowid JOIN meta m ON m.pid = dm.pid
Join(S) == {[rowid |-> p[1].rowid, m |-> p[2]] :
               p \in {x \in S.docs_map \X S.meta :
                         x[1].rowid \in 1..Len(S.docs) /\ x[2].pid = x[1].pid}}

\* WHERE docs MATCH ?  with the space-joined tokens, or with the fallback
MatchRows(S, tokens, disjunctive) ==
    {j \in Join(S) : IF disjunctive
                     THEN MatchAnyQuoted(DocTerms(S.docs[j.rowid]), tokens)
                     ELSE MatchExpr(DocTerms(S.docs[j.rowid]), tokens)}

\* ORDER BY score DESC: the highest score first.
RECURSIVE OrderBy_descending(_, _)
OrderBy_descending(J, sc) ==
    IF J = {} THEN <<>>
    ELSE LET first == CHOOSE j \in J : \A k \in J :
                          \/ sc[j.rowid] > sc[k.rowid]
                          \/ sc[j.rowid] = sc[k.rowid] /\ j.rowid <= k.rowid
         IN <<first>> \o OrderBy_descending(J \ {first}, sc)

\* ORDER BY score: ascending bm25; sc gives each matching document its score.
RECURSIVE OrderBy(_, _)
OrderBy(J, sc) ==
    IF J = {} THEN <<>>
    ELSE LET first == CHOOSE j \in J : \A k \in J :
                          \/ sc[j.rowid] < sc[k.rowid]
                          \/ sc[j.rowid] = sc[k.rowid] /\ j.rowid <= k.rowid
         IN <<first>> \o OrderBy(J \ {first}, sc)

\* LIMIT ? + 1: one row too many.
SqlLimit_off_by_one(rs, n) == IF n < 0 THEN rs
                              ELSE SubSeq(rs, 1, IF n + 1 < Len(rs) THEN n + 1 ELSE Len(rs))

\* LIMIT ?: SQLite reads a negative limit as no limit.
SqlLimit(rs, n) == IF n < 0 THEN rs
                   ELSE SubSeq(rs, 1, IF n < Len(rs) THEN n ELSE Len(rs))

\* The loop that turns rows into Result objects.  _coerce_int swallows
\* every exception, so stock_val is always its integer.
MakeResult(S, j) ==
    [pid |-> j.m.pid, name |-> S.docs[j.rowid].name, price |-> j.m.price,
     stock |-> IntV(coerce_int(j.m.stock)), url |-> j.m.url,
     date_added |-> j.m.date_added, discontinue_status |-> j.m.discontinue_status,
     model |-> S.docs[j.rowid].model, mpn |-> S.docs[j.rowid].mpn,
     manufacturer |-> S.docs[j.rowid].manufacturer]

MakeResults(S, rs) == [i \in 1..Len(rs) |-> MakeResult(S, rs[i])]

\* The docs rowid of each fetched row, in the order fetched.
RowIds(rs) == [i \in 1..Len(rs) |-> rs[i].rowid]

\* conn.execute(sql, (match_query, limit)).fetchall(): it raises
\* sqlite3.OperationalError when a table of the statement is missing or
\* when FTS5 rejects the expression; a quoted token is never rejected.
Execute(S, tokens, disjunctive, lim, sc) ==
    IF S.schema # AllTables \/ (~disjunctive /\ ~SyntaxOk(tokens))
    THEN [raised |-> TRUE, rows |-> <<>>]
    ELSE [raised |-> FALSE,
          rows |-> SqlLimit(OrderBy(MatchRows(S, tokens, disjunctive), sc), lim)]

\* search without its except branch: the OperationalError of the first
\* execute propagates.
search_without_fallback(S, probe, q, lim, sc) ==
    LET tokens == sanitize_for_fts(Strip(q))
        first == Execute(S, tokens, FALSE, lim, sc)
    IN CASE ~S.exists ->
              [error |-> "FileNotFoundError", results |-> <<>>, fallback |-> FALSE,
               rowids |-> <<>>, connected |-> FALSE]
         [] S.exists /\ ~probe ->
              [error |-> "RuntimeError", results |-> <<>>, fallback |-> FALSE,
               rowids |-> <<>>, connected |-> TRUE]
         [] S.exists /\ probe /\ tokens = <<>> ->
              [error |-> "none", results |-> <<>>, fallback |-> FALSE,
               rowids |-> <<>>, connected |-> TRUE]
         [] S.exists /\ probe /\ tokens # <<>> /\ ~first.raised ->
              [error |-> "none", results |-> MakeResults(S, first.rows),
               fallback |-> FALSE, rowids |-> RowIds(first.rows),
               connected |-> TRUE]
         [] OTHER ->
              [error |-> "OperationalError", results |-> <<>>, fallback |-> FALSE,
               rowids |-> <<>>, connected |-> TRUE]

\* open_db before the db_path.exists() test: sqlite3.connect has created
\* the file by the time the test runs.
search_connects_first(S, probe, q, lim, sc) ==
    LET tokens == sanitize_for_fts(Strip(q))
        first == Execute(S, tokens, FALSE, lim, sc)
    IN CASE tokens = <<>> /\ probe ->
              [error |-> "none", results |-> <<>>, fallback |-> FALSE,
               rowids |-> <<>>, connected |-> TRUE]
         [] tokens # <<>> /\ probe /\ ~first.raised ->
              [error |-> "none", results |-> MakeResults(S, first.rows),
               fallback |-> FALSE, rowids |-> RowIds(first.rows),
               connected |-> TRUE]
         [] tokens # <<>> /\ probe /\ first.raised ->
              [error |-> "OperationalError", results |-> <<>>, fallback |-> TRUE,
               rowids |-> <<>>, connected |-> TRUE]
         [] OTHER ->
              [error |-> "RuntimeError", results |-> <<>>, fallback |-> FALSE,
               rowids |-> <<>>, connected |-> TRUE]

\* search(query, limit, db_path) on store S; probe is has_fts5(conn).
search(S, probe, q, lim, sc) ==
    LET tokens == sanitize_for_fts(Strip(q))
        first == Execute(S, tokens, FALSE, lim, sc)
        second == Execute(S, tokens, TRUE, lim, sc)
    IN CASE ~S.exists ->
              [error |-> "FileNotFoundError", results |-> <<>>, fallback |-> FALSE,
               rowids |-> <<>>, connected |-> FALSE]
         [] S.exists /\ ~probe ->
              [error |-> "RuntimeError", results |-> <<>>, fallback |-> FALSE,
               rowids |-> <<>>, connected |-> TRUE]
         [] S.exists /\ probe /\ tokens = <<>> ->
              [error |-> "none", results |-> <<>>, fallback |-> FALSE,
               rowids |-> <<>>, connected |-> TRUE]
         [] S.exists /\ probe /\ tokens # <<>> /\ ~first.raised ->
              [error |-> "none", results |-> MakeResults(S, first.rows),
               fallback |-> FALSE, rowids |-> RowIds(first.rows),
               connected |-> TRUE]
         [] S.exists /\ probe /\ tokens # <<>> /\ first.raised /\ ~second.raised ->
              [error |-> "none", results |-> MakeResults(S, second.rows),
               fallback |-> TRUE, rowids |-> RowIds(second.rows),
               connected |-> TRUE]
         [] OTHER ->
              [error |-> "OperationalError", results |-> <<>>, fallback |-> TRUE,
               rowids |-> <<>>, connected |-> TRUE]

\* conn.close() at the end of the try block instead of in finally: a call
\* that raises leaves its handle open.
search_handle_closed_on_return(S, probe, q, lim, sc) ==
    LET tokens == sanitize_for_fts(Strip(q))
        first == Execute(S, tokens, FALSE, lim, sc)
        second == Execute(S, tokens, TRUE, lim, sc)
    IN IF ~S.exists THEN <<>>
       ELSE IF ~probe THEN <<"open", "has_fts5">>
       ELSE IF tokens = <<>> THEN <<"open", "has_fts5", "close">>
       ELSE IF ~first.raised THEN <<"open", "has_fts5", "execute", "close">>
       ELSE IF ~second.raised
            THEN <<"open", "has_fts5", "execute", "execute", "close">>
       ELSE <<"open", "has_fts5", "execute", "execute">>

\* What search does with the store handle, in order: nothing when the path
\* does not exist; else open_db, the probe, the statements executed, and
\* conn.close() in the finally clause.
search_handle(S, probe, q, lim, sc) ==
    LET tokens == sanitize_for_fts(Strip(q))
        first == Execute(S, tokens, FALSE, lim, sc)
    IN IF ~S.exists THEN <<>>
       ELSE <<"open", "has_fts5">>
            \o (IF ~probe \/ tokens = <<>> THEN <<>>
                ELSE IF first.raised THEN <<"execute", "execute">>
                ELSE <<"execute">>)
            \o <<"close">>

\* The documents that the statement of a search on S gives a score.
Scored(S, q) ==
    LET tokens == sanitize_for_fts(Strip(q))
    IN IF S.exists /\ tokens # <<>> /\ S.schema = AllTables
       THEN {j.rowid : j \in MatchRows(S, tokens, ~SyntaxOk(tokens))}
       ELSE {}

\* No invocation of the CLI has happened.
NoCli == [ran |-> FALSE, argv |-> <<>>, json |-> FALSE, no_browser |-> FALSE,
          limit |-> 0, rc |-> 0, raised |-> "none", printed |-> <<>>,
          message |-> "", text_rows |-> <<>>, json_rows |-> <<>>, url |-> "",
          browser |-> <<>>, searches |-> 0, connects |-> 0]

\* The raw catalog file: absent, not JSON, or a JSON list of records.
NoFile == [kind |-> "absent", rows |-> <<>>]
Garbage == [kind |-> "garbage", rows |-> <<>>]
ListOf(cat) == [kind |-> "list", rows |-> cat]

\* No update pipeline has been started.
NoPipe == [on |-> FALSE, skip_download |-> FALSE, skip_refresh |-> FALSE,
           steps |-> <<>>, started |-> <<>>, log |-> <<>>, child |-> "none",
           rc |-> -1, count |-> 0]

(***************************************************************************)
(* Initial state: nothing has been built.                                  *)
(***************************************************************************)
NothingBuilt ==
    /\ db_exists = FALSE
    /\ schema = {}
    /\ docs = <<>>
    /\ meta = {}
    /\ docs_map = {}
    /\ pc = "idle"
    /\ use_raw_json = FALSE
    /\ rows = <<>>
    /\ count = 0
    /\ wdocs = <<>>
    /\ wmeta = {}
    /\ wmap = {}
    /\ runs = 0
    /\ exit = "none"
    /\ old = NoStore
    /\ called = FALSE
    /\ query = <<>>
    /\ limit = 0
    /\ results = <<>>
    /\ error = "none"
    /\ fallback = FALSE
    /\ bm25 = <<>>
    /\ hits = <<>>
    /\ handle = <<>>

\* No interactive session has been started.
NoRepl == [on |-> FALSE, limit |-> 0, no_browser |-> FALSE, prompts |-> 0,
           line |-> <<>>, ended_by |-> "none", rc |-> -1]

\* No pipeline, no catalog file, no interactive session.
NoPipeline ==
    /\ repl = NoRepl
    /\ pipe = NoPipe
    /\ raw_json = NoFile
    /\ parquet = FALSE
    /\ deps = FALSE

\* No text has been given to the tokenizer.
NoText ==
    /\ tk_pc = "input"
    /\ tk_text = <<>>
    /\ tk_tokens = <<>>
    /\ tk_again = <<>>

Init ==
    /\ fts5 \in BOOLEAN
    /\ NothingBuilt
    /\ cli = NoCli
    /\ NoText
    /\ NoPipeline

\* No search call has just returned.
NoSearch ==
    /\ called' = FALSE
    /\ query' = <<>>
    /\ limit' = 0
    /\ results' = <<>>
    /\ error' = "none"
    /\ fallback' = FALSE
    /\ bm25' = <<>>
    /\ hits' = <<>>
    /\ handle' = <<>>

(***************************************************************************)
(* scripts/build_index.py main(): one Builder run, statement by statement. *)
(* Every DDL statement commits by itself; the first INSERT opens the       *)
(* transaction that conn.commit() ends.                                    *)
(***************************************************************************)
\* Neither the processed parquet nor the raw JSON exists: return 2.
BuildNoInput ==
    /\ pc = "idle" /\ runs < MaxRuns
    /\ runs' = runs + 1
    /\ exit' = "2"
    /\ old' = Store
    /\ UNCHANGED <<fts5, store_vars, pc, use_raw_json, rows, count,
                   wdocs, wmeta, wmap>>
    /\ NoSearch
    /\ UNCHANGED <<cli_vars, tok_vars, pipe_vars, repl_vars>>

\* Inputs found; mkdir; sqlite3.connect(db_path) creates the file.
BuildStart ==
    /\ pc = "idle" /\ runs < MaxRuns
    /\ use_raw_json' \in BOOLEAN
    /\ runs' = runs + 1
    /\ old' = Store
    /\ db_exists' = TRUE
    /\ pc' = "ensure_fts5"
    /\ exit' = "none"
    /\ rows' = <<>>
    /\ count' = 0
    /\ UNCHANGED <<fts5, schema, docs, meta, docs_map, wdocs, wmeta, wmap>>
    /\ NoSearch
    /\ UNCHANGED <<cli_vars, tok_vars, pipe_vars, repl_vars>>

\* has_fts5 = ensure_fts5(conn) is False: close, write METADATA.json, return 0.
EnsureFts5Missing ==
    /\ pc = "ensure_fts5" /\ ~fts5
    /\ pc' = "idle"
    /\ exit' = "0"
    /\ UNCHANGED <<fts5, store_vars, use_raw_json, rows, count,
                   wdocs, wmeta, wmap, runs, old>>
    /\ NoSearch
    /\ UNCHANGED <<cli_vars, tok_vars, pipe_vars, repl_vars>>

EnsureFts5 ==
    /\ pc = "ensure_fts5" /\ fts5
    /\ pc' = "create_docs"
    /\ UNCHANGED <<fts5, store_vars, use_raw_json, rows, count,
                   wdocs, wmeta, wmap, runs, exit, old>>
    /\ NoSearch
    /\ UNCHANGED <<cli_vars, tok_vars, pipe_vars, repl_vars>>

\* CREATE [VIRTUAL] TABLE IF NOT EXISTS ..., one statement each
CreateTable(at, table, next) ==
    /\ pc = at
    /\ schema' = schema \cup {table}
    /\ pc' = next
    /\ UNCHANGED <<fts5, db_exists, docs, meta, docs_map, use_raw_json,
                   rows, count, wdocs, wmeta, wmap, runs, exit, old>>
    /\ NoSearch
    /\ UNCHANGED <<cli_vars, tok_vars, pipe_vars, repl_vars>>

CreateDocs == CreateTable("create_docs", "docs", "create_meta")
CreateMeta == CreateTable("create_meta", "meta", "create_docs_map")
CreateDocsMap == CreateTable("create_docs_map", "docs_map", "populate?")

\* The processed parquet exists: nothing is populated; close, return 0.
SkipPopulate ==
    /\ pc = "populate?" /\ ~use_raw_json
    /\ pc' = "idle"
    /\ exit' = "0"
    /\ UNCHANGED <<fts5, store_vars, use_raw_json, rows, count,
                   wdocs, wmeta, wmap, runs, old>>
    /\ NoSearch
    /\ UNCHANGED <<cli_vars, tok_vars, pipe_vars, repl_vars>>

\* json.loads(...) raises: print, conn.close(), return 3.
LoadJsonFails ==
    /\ pc = "populate?" /\ use_raw_json
    /\ pc' = "idle"
    /\ exit' = "3"
    /\ UNCHANGED <<fts5, store_vars, use_raw_json, rows, count,
                   wdocs, wmeta, wmap, runs, old>>
    /\ NoSearch
    /\ UNCHANGED <<cli_vars, tok_vars, pipe_vars, repl_vars>>

\* rows = the list, or the list under "products"; cur = conn.cursor()
LoadJson ==
    /\ pc = "populate?" /\ use_raw_json
    /\ rows' \in Catalogs(MaxDocs - Len(docs))
    /\ count' = 0
    /\ wdocs' = docs /\ wmeta' = meta /\ wmap' = docs_map
    /\ pc' = "loop"
    /\ UNCHANGED <<fts5, store_vars, use_raw_json, runs, exit, old>>
    /\ NoSearch
    /\ UNCHANGED <<cli_vars, tok_vars, pipe_vars, repl_vars>>

\* One record of the loop, inside the connection's transaction.
LoopRecord ==
    /\ pc = "loop" /\ count < Len(rows) /\ ~PidRaises(rows[count + 1].product_id)
    /\ LET w == ProcessRecord([docs |-> wdocs, meta |-> wmeta, docs_map |-> wmap],
                              rows[count + 1])
       IN wdocs' = w.docs /\ wmeta' = w.meta /\ wmap' = w.docs_map
    /\ count' = count + 1
    /\ UNCHANGED <<fts5, store_vars, pc, use_raw_json, rows, runs, exit,
                   old>>
    /\ NoSearch
    /\ UNCHANGED <<cli_vars, tok_vars, pipe_vars, repl_vars>>

\* int(r.get("product_id", 0)) raises ValueError: nothing catches it, the
\* process ends with a traceback and its transaction is rolled back.
LoopRaises ==
    /\ pc = "loop" /\ count < Len(rows) /\ PidRaises(rows[count + 1].product_id)
    /\ wdocs' = docs /\ wmeta' = meta /\ wmap' = docs_map
    /\ pc' = "idle"
    /\ exit' = "1"
    /\ UNCHANGED <<fts5, store_vars, use_raw_json, rows, count, runs,
                   old>>
    /\ NoSearch
    /\ UNCHANGED <<cli_vars, tok_vars, pipe_vars, repl_vars>>

\* conn.commit(); conn.close(); METADATA.json; return 0
Commit ==
    /\ pc = "loop" /\ count = Len(rows)
    /\ docs' = wdocs /\ meta' = wmeta /\ docs_map' = wmap
    /\ pc' = "idle"
    /\ exit' = "0"
    /\ UNCHANGED <<fts5, db_exists, schema, use_raw_json, rows, count,
                   wdocs, wmeta, wmap, runs, old>>
    /\ NoSearch
    /\ UNCHANGED <<cli_vars, tok_vars, pipe_vars, repl_vars>>

(***************************************************************************)
(* core/db.py search(), called by a front end at any moment.               *)
(***************************************************************************)
\* The Builder's connection holds the write lock from its first INSERT on.
WriteLocked == pc = "loop" /\ count > 0

\* has_fts5(conn) creates and drops a table: under the Builder's write lock
\* the CREATE times out with "database is locked", an OperationalError,
\* and has_fts5 answers False.
has_fts5 == fts5 /\ ~WriteLocked

\* The probe without its DROP: the table __probe stays in the store.
probe_tables_not_dropped(sch, ok) ==
    IF ok THEN sch \cup {"__probe"} ELSE sch

\* The tables of the store after has_fts5(conn): where the CREATE succeeds
\* (ok) the table __probe is created if absent and then dropped.
probe_tables(sch, ok) ==
    IF ok THEN (sch \cup {"__probe"}) \ {"__probe"} ELSE sch

Search ==
    /\ ~called
    /\ \E q \in Queries, lim \in Limits :
         \E sc \in [Scored(Store, q) -> Scores] :
            LET out == search(Store, has_fts5, q, lim, sc)
            IN /\ query' = q
               /\ limit' = lim
               /\ results' = out.results
               /\ error' = out.error
               /\ fallback' = out.fallback
               /\ bm25' = sc
               /\ hits' = out.rowids
               /\ handle' = search_handle(Store, has_fts5, q, lim, sc)
               /\ db_exists' = (db_exists \/ out.connected)
               /\ schema' = probe_tables(schema, out.connected /\ has_fts5)
    /\ called' = TRUE
    /\ UNCHANGED <<fts5, docs, meta, docs_map, builder_vars,
                   cli_vars, tok_vars, pipe_vars, repl_vars>>

\* The front end has rendered what the call gave it.
Return ==
    /\ called
    /\ NoSearch
    /\ UNCHANGED <<cli_vars, tok_vars, pipe_vars, repl_vars>>
    /\ UNCHANGED <<fts5, store_vars, builder_vars>>

Next ==
    \/ BuildNoInput
    \/ BuildStart
    \/ EnsureFts5Missing
    \/ EnsureFts5
    \/ CreateDocs
    \/ CreateMeta
    \/ CreateDocsMap
    \/ SkipPopulate
    \/ LoadJsonFails
    \/ LoadJson
    \/ LoopRecord
    \/ LoopRaises
    \/ Commit
    \/ Search
    \/ Return

Spec == Init /\ [][Next]_vars

(***************************************************************************)
(* core/db.py _sanitize_for_fts() on its own: every text of at most        *)
(* MaxChars characters is tokenized, and its tokens, joined by single      *)
(* spaces as search() joins them, are tokenized again.                     *)
(***************************************************************************)
Texts == SeqsUpTo(Chars, MaxChars)

InitTokenize ==
    /\ fts5 = TRUE
    /\ NothingBuilt
    /\ cli = NoCli
    /\ NoPipeline
    /\ tk_pc = "input"
    /\ tk_text \in Texts
    /\ tk_tokens = <<>>
    /\ tk_again = <<>>

\* tokens = _sanitize_for_fts(q)
Tokenize ==
    /\ tk_pc = "input"
    /\ tk_tokens' = findall_alnum(tk_text)
    /\ tk_pc' = "tokenized"
    /\ UNCHANGED <<fts5, store_vars, builder_vars, search_vars, cli_vars, pipe_vars, repl_vars,
                   tk_text, tk_again>>

\* _sanitize_for_fts(" ".join(tokens))
TokenizeJoined ==
    /\ tk_pc = "tokenized"
    /\ tk_again' = findall_alnum(join_space(tk_tokens))
    /\ tk_pc' = "retokenized"
    /\ UNCHANGED <<fts5, store_vars, builder_vars, search_vars, cli_vars, pipe_vars, repl_vars,
                   tk_text, tk_tokens>>

NextTokenize == Tokenize \/ TokenizeJoined

SpecTokenize == InitTokenize /\ [][NextTokenize]_vars

(***************************************************************************)
(* core/cli.py main() in single-shot mode.  The positional arguments are   *)
(* words; " ".join puts one space between two of them.  What main prints   *)
(* is kept as the kinds of its lines (printed), the exception text in them *)
(* (message), the result lines (text_rows), the JSON array (json_rows) and *)
(* the URL line (url); browser holds the URLs given to webbrowser.open.    *)
(***************************************************************************)
CliWords == {"a", "NOT", " ", "'", ":open", "0", "1"}
Argvs == SeqsUpTo(CliWords, MaxArgs) \ {<<>>}
BrowserOutcomes == {"ok", "refused", "raises"}

\* What main has done so far: nothing printed, nothing opened.
Quiet(argv, lim, json, no_browser) ==
    [ran |-> TRUE, argv |-> argv, json |-> json, no_browser |-> no_browser,
     limit |-> lim, rc |-> 0, raised |-> "none", printed |-> <<>>,
     message |-> "", text_rows |-> <<>>, json_rows |-> <<>>, url |-> "",
     browser |-> <<>>, searches |-> 0, connects |-> 0]

\* shlex.split(query): whitespace separates the parts, a quote opens a
\* quoted stretch that keeps its whitespace; a quote left open raises
\* ValueError.  has: a part is being read; cur: its content so far.
RECURSIVE shlex_scan(_, _, _, _, _, _)
shlex_scan(ws, start, inq, has, cur, acc) ==
    IF ws = <<>>
    THEN [raises |-> inq, parts |-> IF has THEN Append(acc, cur) ELSE acc]
    ELSE LET \* the space that join put before this word
             gap == ~start
             cur1 == IF gap /\ inq THEN Append(cur, " ") ELSE IF gap THEN <<>> ELSE cur
             acc1 == IF gap /\ ~inq /\ has THEN Append(acc, cur) ELSE acc
             has1 == IF gap /\ ~inq THEN FALSE ELSE has
             w == Head(ws)
         IN CASE w = "'" -> shlex_scan(Tail(ws), FALSE, ~inq, TRUE, cur1, acc1)
              [] w = " " /\ inq ->
                     shlex_scan(Tail(ws), FALSE, inq, has1, Append(cur1, " "), acc1)
              [] w = " " /\ ~inq ->
                     shlex_scan(Tail(ws), FALSE, inq, FALSE, <<>>,
                                IF has1 THEN Append(acc1, cur1) ELSE acc1)
              [] OTHER ->
                     shlex_scan(Tail(ws), FALSE, inq, TRUE, Append(cur1, w), acc1)

shlex_split(q) == shlex_scan(q, TRUE, FALSE, FALSE, <<>>, <<>>)

\* int(part): surrounding whitespace is ignored; anything but one integer
\* literal raises ValueError.
IsInt(part) == Len(Strip(part)) = 1 /\ Strip(part)[1] \in DOMAIN IntLiteral
ToInt(part) == IntLiteral[Strip(part)[1]]

\* _open_url(url, no_browser); browser is what webbrowser.open does.
open_url(c, url, browser) ==
    LET shown == [c EXCEPT !.printed = Append(@, "URL:"), !.url = url]
    IN CASE c.no_browser ->
              [shown EXCEPT !.printed = Append(@, "Browser opening disabled"), !.rc = 0]
         [] ~c.no_browser /\ browser = "ok" ->
              [shown EXCEPT !.browser = Append(@, url),
                            !.printed = Append(@, "Opened"), !.rc = 0]
         [] ~c.no_browser /\ browser = "refused" ->
              [shown EXCEPT !.browser = Append(@, url),
                            !.printed = Append(@, "Could not open a browser"), !.rc = 1]
         [] OTHER ->
              [shown EXCEPT !.browser = Append(@, url),
                            !.printed = Append(@, "Failed to open browser"), !.rc = 2]

\* _open_pid(pid, db_path, no_browser) on store S.  sqlite3.connect creates
\* a missing file when its directory exists (dir_ok) and raises otherwise;
\* the SELECT is inside try/finally only, so its OperationalError leaves
\* _open_pid and main.
open_pid(c, S, pid, dir_ok, browser) ==
    LET row == {m \in S.meta : m.pid = pid}
        conn == [c EXCEPT !.connects = @ + 1]
    IN CASE ~S.exists /\ ~dir_ok ->
              [c EXCEPT !.printed = Append(@, "Error opening DB:"),
                        !.message = "unable to open database file", !.rc = 2]
         [] (S.exists \/ dir_ok) /\ "meta" \notin S.schema ->
              [conn EXCEPT !.raised = "OperationalError", !.rc = -1]
         [] (S.exists \/ dir_ok) /\ "meta" \in S.schema
               /\ (row = {} \/ \E m \in row : m.url = "") ->
              [conn EXCEPT !.printed = Append(@, "No URL found for PID"), !.rc = 1]
         [] OTHER ->
              open_url(conn, (CHOOSE m \in row : TRUE).url, browser)

\* print(json.dumps({"error": str(e)})) replaced by an empty array and 0.
print_results_json_hides_error(c, out) ==
    [c EXCEPT !.searches = @ + 1, !.printed = Append(@, "json array"),
              !.json_rows = out.results, !.rc = 0]

\* _print_results_json(query, limit, db_path); out is what search gave.
print_results_json(c, out) ==
    LET called1 == [c EXCEPT !.searches = @ + 1]
    IN IF out.error # "none"
       THEN [called1 EXCEPT !.printed = Append(@, "json error"),
                            !.message = out.error, !.rc = 2]
       ELSE [called1 EXCEPT
                !.printed = Append(@, "json array"),
                !.json_rows =
                    [i \in 1..Len(out.results) |->
                        [pid |-> out.results[i].pid, name |-> out.results[i].name,
                         price |-> out.results[i].price, stock |-> out.results[i].stock,
                         url |-> out.results[i].url,
                         date_added |-> out.results[i].date_added,
                         discontinue_status |-> out.results[i].discontinue_status,
                         model |-> out.results[i].model, mpn |-> out.results[i].mpn,
                         manufacturer |-> out.results[i].manufacturer]],
                !.rc = 0]

\* "No results." taken for a failure: return 1.
print_results_empty_is_failure(c, out) ==
    LET called1 == [c EXCEPT !.searches = @ + 1]
    IN IF out.error # "none"
       THEN [called1 EXCEPT !.printed = Append(@, "Error:"),
                            !.message = out.error, !.rc = 2]
       ELSE IF out.results = <<>>
       THEN [called1 EXCEPT !.printed = Append(@, "No results."), !.rc = 1]
       ELSE [called1 EXCEPT
                !.printed = [i \in 1..Len(out.results) |-> "PID"],
                !.text_rows =
                    [i \in 1..Len(out.results) |->
                        [pid |-> out.results[i].pid, price |-> out.results[i].price,
                         stock |-> out.results[i].stock, name |-> out.results[i].name,
                         url |-> out.results[i].url]],
                !.rc = 0]

\* _print_results(query, limit, db_path); out is what search gave.
print_results(c, out) ==
    LET called1 == [c EXCEPT !.searches = @ + 1]
    IN IF out.error # "none"
       THEN [called1 EXCEPT !.printed = Append(@, "Error:"),
                            !.message = out.error, !.rc = 2]
       ELSE IF out.results = <<>>
       THEN [called1 EXCEPT !.printed = Append(@, "No results."), !.rc = 0]
       ELSE [called1 EXCEPT
                !.printed = [i \in 1..Len(out.results) |-> "PID"],
                !.text_rows =
                    [i \in 1..Len(out.results) |->
                        [pid |-> out.results[i].pid, price |-> out.results[i].price,
                         stock |-> out.results[i].stock, name |-> out.results[i].name,
                         url |-> out.results[i].url]],
                !.rc = 0]

\* query = " ".join(args.query).strip()
CliQuery(argv) == Strip(argv)
IsOpenCommand(q) == q # <<>> /\ q[1] = ":open"

(***************************************************************************)
(* Vocabulary of the properties.                                           *)
(***************************************************************************)
\* The last Builder run loaded `rows`, processed all of them and committed.
CommittedRun == pc = "idle" /\ use_raw_json /\ exit = "0"

\* A product id that is present and numeric.
WellFormedId(v) == \/ v.kind = "int" /\ v.n >= 0
                   \/ v.kind = "str" /\ v.s \in DOMAIN IntLiteral

\* A string that is no number.
NonNumericString(v) == v.kind = "str" /\ v.s \notin (DOMAIN IntLiteral \cup DOMAIN FloatLiteral)

\* The tokens of the query of the call that has just returned.
QueryTokens == sanitize_for_fts(Strip(query))

\* The tables a run on catalog rs leaves when it starts from tables w.
RECURSIVE BuildAll(_, _)
BuildAll(w, rs) == IF rs = <<>> THEN w
                   ELSE BuildAll(ProcessRecord(w, Head(rs)), Tail(rs))

EmptyTables == [docs |-> <<>>, meta |-> {}, docs_map |-> {}]
Tables == [docs |-> docs, meta |-> meta, docs_map |-> docs_map]

(***************************************************************************)
(* C1: a record with a valid product id and a non-numeric stock string     *)
(* such as "in stock", once built and returned by a search, has that       *)
(* string as the stock of its Result.                                      *)
(***************************************************************************)
C1_StockPreservedAsString ==
    (called /\ CommittedRun) =>
        \A k \in 1..Len(rows), i \in 1..Len(results) :
            (/\ WellFormedId(rows[k].product_id)
             /\ NonNumericString(rows[k].product_stock)
             /\ results[i].pid = ExtractPid(rows[k].product_id)
             /\ results[i].name = rows[k].product_name)
            => results[i].stock = rows[k].product_stock

(***************************************************************************)
(* C2: a search issued while a Builder run is in progress returns what it  *)
(* would return on the store as it was before the run or on the store as   *)
(* the run leaves it; it never fails on a partial schema or because of the *)
(* rebuild.                                                                *)
(***************************************************************************)
\* What the call that has just returned gave.
Observed == [error |-> error, results |-> results]

\* What the same call can give on store S, full-text support present.
OutcomesOn(S) ==
    {[error |-> o.error, results |-> o.results] :
        o \in {search(S, TRUE, query, limit, sc) : sc \in [Scored(S, query) -> Scores]}}

CompleteStore(t) == [exists |-> TRUE, schema |-> AllTables, docs |-> t.docs,
                     meta |-> t.meta, docs_map |-> t.docs_map]

OldTables == [docs |-> old.docs, meta |-> old.meta, docs_map |-> old.docs_map]

\* The stores the run in progress can leave: once the catalog is loaded,
\* the old tables with the catalog built onto them, or the old tables when
\* a record raises; before that, the same for every catalog it may load.
NewStores ==
    LET after(cat) == IF \E k \in 1..Len(cat) : PidRaises(cat[k].product_id)
                      THEN CompleteStore(OldTables)
                      ELSE CompleteStore(BuildAll(OldTables, cat))
    IN IF pc = "loop" THEN {after(rows)}
       ELSE {after(cat) : cat \in Catalogs(MaxDocs - Len(old.docs))}

C2_RebuildAtomicForReaders ==
    (called /\ pc # "idle" /\ fts5) =>
        \/ Observed \in OutcomesOn(old)
        \/ \E S \in NewStores : Observed \in OutcomesOn(S)

(***************************************************************************)
(* C3: the number of results search returns is at most the limit N it was  *)
(* given, for any query and any integer N.                                 *)
(***************************************************************************)
C3_LimitRespectedForAnyInteger ==
    (called /\ error = "none") => Len(results) <= limit

\* C3 as amended: for any query and any limit N >= 0, search returns at
\* most N results.
C3_LimitRespected ==
    (called /\ error = "none" /\ limit >= 0) => Len(results) <= limit

\* A search that the limit has cut short: more documents matched than it
\* returned.
C3_Witness ==
    /\ called /\ error = "none" /\ limit = 1 /\ Len(results) = 1
    /\ Cardinality(Scored(Store, query)) > 1

(***************************************************************************)
(* C4: a Builder run on catalog C against a store that holds an earlier    *)
(* run's result leaves exactly the documents, metadata rows and mapping    *)
(* rows that a run on C against an empty store produces.                   *)
(***************************************************************************)
C4_FullRebuild ==
    CommittedRun => Tables = BuildAll(EmptyTables, rows)

(***************************************************************************)
(* C5: after any sequence of Builder runs no two document ordinals are     *)
(* mapped to the same pid.                                                 *)
(***************************************************************************)
C5_MappingInjective ==
    \A x \in docs_map, y \in docs_map : x.pid = y.pid => x.rowid = y.rowid

(***************************************************************************)
(* C6: in every committed store state every mapping entry's pid has        *)
(* exactly one metadata row, and no pid has two metadata rows.             *)
(***************************************************************************)
C6_OneMetadataRowPerMappedPid ==
    /\ \A dm \in docs_map : Cardinality({m \in meta : m.pid = dm.pid}) = 1
    /\ \A m1 \in meta, m2 \in meta : m1.pid = m2.pid => m1 = m2

\* A pid whose metadata row has been replaced: two documents map to it.
C6_Witness ==
    \E x \in docs_map, y \in docs_map :
        /\ x.pid = y.pid /\ x.rowid # y.rowid
        /\ docs[x.rowid].name # docs[y.rowid].name
        /\ Cardinality({m \in meta : m.pid = x.pid}) = 1

(***************************************************************************)
(* C7: for every query made only of punctuation and whitespace, the empty  *)
(* string included, search returns an empty sequence and never an error.   *)
(***************************************************************************)
PunctuationOnly(q) == \A i \in 1..Len(q) : q[i] \in Punctuation

C7_PunctuationQueryNeverFails ==
    (called /\ PunctuationOnly(query)) => (error = "none" /\ results = <<>>)

\* C7 as amended: for such a query search returns an empty sequence
\* whenever the store file exists and the full-text probe succeeds, whatever
\* the tables of the store; it raises IndexNotFound when the file is missing
\* and CapabilityMissing when the probe fails.
C7_PunctuationQueryEmpty ==
    (called /\ PunctuationOnly(query)) =>
        /\ results = <<>>
        /\ error = CASE ~db_exists -> "FileNotFoundError"
                     [] db_exists /\ ~has_fts5 -> "RuntimeError"
                     [] OTHER -> "none"

\* A punctuation query answered with the empty list by a populated store.
C7_Witness ==
    /\ called /\ query # <<>> /\ PunctuationOnly(query)
    /\ docs_map # {} /\ error = "none" /\ results = <<>>

(***************************************************************************)
(* C8: a catalog of N records of which exactly one is malformed (product   *)
(* id missing or non-numeric) is built to the end and committed, and       *)
(* exactly the other N-1 records are returned by searches.                 *)
(***************************************************************************)
Malformed(r) == ~WellFormedId(r.product_id)

\* The run has loaded `rows` and has ended, by commit or by an exception.
LoadedRunEnded == pc = "idle" /\ use_raw_json /\ exit \in {"0", "1"}

\* Some search returns the document of the k-th record of the last run.
Returned(k) == \E q \in Queries : (Len(old.docs) + k) \in Scored(Store, q)

C8_MalformedRecordSkipped ==
    (/\ LoadedRunEnded
     /\ Cardinality({k \in 1..Len(rows) : Malformed(rows[k])}) = 1)
    => /\ exit = "0"
       /\ \A k \in 1..Len(rows) : Returned(k) <=> ~Malformed(rows[k])

(***************************************************************************)
(* C9: when the engine rejects the space-joined expression of a query,     *)
(* search does not raise and returns the results of the OR-joined quoted   *)
(* tokens: rows of documents holding at least one token, as many as the    *)
(* limit allows.                                                           *)
(***************************************************************************)
ConjunctionRejected ==
    /\ called /\ db_exists /\ has_fts5 /\ schema = AllTables
    /\ QueryTokens # <<>> /\ ~SyntaxOk(QueryTokens)

\* The joined rows whose document holds at least one token of the query.
HoldingAnyToken ==
    {j \in Join(Store) :
        \E i \in 1..Len(QueryTokens) : Fold(QueryTokens[i]) \in DocTerms(docs[j.rowid])}

C9_FallbackReturnsDisjunction ==
    ConjunctionRejected =>
        /\ error = "none"
        /\ \A i \in 1..Len(results) :
              \E j \in HoldingAnyToken : results[i] = MakeResult(Store, j)
        /\ Len(results) = IF limit < 0 \/ limit > Cardinality(HoldingAnyToken)
                          THEN Cardinality(HoldingAnyToken) ELSE limit

\* A rejected expression whose fallback found a document.
C9_Witness == ConjunctionRejected /\ fallback /\ results # <<>>

(***************************************************************************)
(* C10: a record built with a valid pid, a name, a numeric price and a     *)
(* numeric stock is returned by a search whose query consists of tokens of *)
(* its name, the limit being large enough, and the Result carries that pid *)
(* and that price.                                                         *)
(***************************************************************************)
Eligible(r) == /\ WellFormedId(r.product_id)
               /\ r.product_name # <<>>
               /\ r.product_price.kind = "int"
               /\ r.product_stock.kind = "int"

QueryOfTokensOf(name) ==
    /\ QueryTokens # <<>>
    /\ \A i \in 1..Len(QueryTokens) :
          \E n \in 1..Len(name) : QueryTokens[i] = name[n]

LimitLargeEnough == limit < 0 \/ limit >= Cardinality(Scored(Store, query))

ReturnedWithPidAndPrice(r) ==
    \E i \in 1..Len(results) :
        /\ results[i].pid = ExtractPid(r.product_id)
        /\ results[i].price = r.product_price.n
        /\ results[i].name = r.product_name

LastOfItsPid(k) ==
    \A n \in (k + 1)..Len(rows) :
        ExtractPid(rows[n].product_id) # ExtractPid(rows[k].product_id)

FileWith(sch) == [exists |-> TRUE, schema |-> sch, docs |-> <<>>, meta |-> {},
                  docs_map |-> {}]

CliStores ==
    {NoStore}
    \cup {FileWith(sch) : sch \in {{}, {"docs"}, {"docs", "meta"}, AllTables}}
    \cup {CompleteStore(BuildAll(EmptyTables, cat)) :
            cat \in {c \in Catalogs(MaxDocs) :
                        \A k \in 1..Len(c) : ~PidRaises(c[k].product_id)}}

InitCli ==
    /\ fts5 \in BOOLEAN
    /\ \E S \in CliStores :
          /\ fts5 \/ S.schema = {}
          /\ db_exists = S.exists /\ schema = S.schema
          /\ docs = S.docs /\ meta = S.meta /\ docs_map = S.docs_map
    /\ pc = "idle" /\ use_raw_json = FALSE /\ rows = <<>> /\ count = 0
    /\ wdocs = <<>> /\ wmeta = {} /\ wmap = {}
    /\ runs = 0 /\ exit = "none" /\ old = NoStore
    /\ called = FALSE /\ query = <<>> /\ limit = 0 /\ results = <<>>
    /\ error = "none" /\ fallback = FALSE /\ bm25 = <<>> /\ hits = <<>>
    /\ handle = <<>>
    /\ cli = NoCli
    /\ NoText
    /\ NoPipeline

\* if not query: return 0
MainEmptyQuery ==
    /\ ~cli.ran
    /\ \E argv \in Argvs, lim \in Limits, json \in BOOLEAN, nb \in BOOLEAN :
          /\ CliQuery(argv) = <<>>
          /\ cli' = Quiet(argv, lim, json, nb)
    /\ NoSearch
    /\ UNCHANGED <<fts5, store_vars, builder_vars, tok_vars, pipe_vars, repl_vars>>

\* The branch of main for a query that starts with ":open".
main_open(c, S, dir_ok, browser) ==
    LET split == shlex_split(CliQuery(c.argv))
    IN CASE split.raises -> [c EXCEPT !.raised = "ValueError", !.rc = -1]
         [] ~split.raises /\ Len(split.parts) < 2 ->
              [c EXCEPT !.printed = Append(@, "Usage: :open <pid>"), !.rc = 2]
         [] ~split.raises /\ Len(split.parts) >= 2 /\ ~IsInt(split.parts[2]) ->
              [c EXCEPT !.printed = Append(@, "PID must be an integer."), !.rc = 2]
         [] OTHER -> open_pid(c, S, ToInt(split.parts[2]), dir_ok, browser)

MainOpen ==
    /\ ~cli.ran
    /\ \E argv \in Argvs, lim \in Limits, json \in BOOLEAN, nb \in BOOLEAN,
          dir_ok \in BOOLEAN, browser \in BrowserOutcomes :
          /\ IsOpenCommand(CliQuery(argv))
          /\ cli' = main_open(Quiet(argv, lim, json, nb), Store, dir_ok, browser)
    /\ db_exists' = (db_exists \/ cli'.connects > 0)
    /\ NoSearch
    /\ UNCHANGED <<fts5, schema, docs, meta, docs_map, builder_vars, tok_vars, pipe_vars, repl_vars>>

\* return _print_results_json(...) if args.json else _print_results(...)
MainSearch ==
    /\ ~cli.ran
    /\ \E argv \in Argvs, lim \in Limits, json \in BOOLEAN, nb \in BOOLEAN :
          /\ CliQuery(argv) # <<>> /\ ~IsOpenCommand(CliQuery(argv))
          /\ \E sc \in [Scored(Store, CliQuery(argv)) -> Scores] :
                LET out == search(Store, has_fts5, CliQuery(argv), lim, sc)
                IN /\ cli' = IF json THEN print_results_json(Quiet(argv, lim, json, nb), out)
                                     ELSE print_results(Quiet(argv, lim, json, nb), out)
                   /\ query' = CliQuery(argv)
                   /\ limit' = lim
                   /\ results' = out.results
                   /\ error' = out.error
                   /\ fallback' = out.fallback
                   /\ bm25' = sc
                   /\ hits' = out.rowids
                   /\ handle' = search_handle(Store, has_fts5, CliQuery(argv), lim, sc)
                   /\ db_exists' = (db_exists \/ out.connected)
                   /\ schema' = probe_tables(schema, out.connected /\ has_fts5)
    /\ called' = TRUE
    /\ UNCHANGED <<fts5, docs, meta, docs_map, builder_vars, tok_vars, pipe_vars, repl_vars>>

\* The process has ended.
CliExit ==
    /\ cli.ran
    /\ cli' = NoCli
    /\ NoSearch
    /\ UNCHANGED <<fts5, store_vars, builder_vars, tok_vars, pipe_vars, repl_vars>>

NextCli == MainEmptyQuery \/ MainOpen \/ MainSearch \/ CliExit

SpecCli == InitCli /\ [][NextCli]_vars

(***************************************************************************)
(* C11: the sequence search returns is in ascending score order and, when  *)
(* more documents match than the limit allows, holds the lowest-scoring    *)
(* matches: no omitted match has a score strictly lower than a returned    *)
(* one.                                                                    *)
(***************************************************************************)
\* The matching documents the call did not return.
Omitted == DOMAIN bm25 \ {hits[i] : i \in 1..Len(hits)}

C11_AscendingScoreLowestFirst ==
    (called /\ error = "none") =>
        /\ Len(results) = Len(hits)
        /\ \A i \in 1..Len(hits) :
              /\ hits[i] \in DOMAIN bm25
              /\ results[i].name = docs[hits[i]].name
        /\ \A i \in 1..Len(hits), j \in 1..Len(hits) :
              i < j => bm25[hits[i]] <= bm25[hits[j]]
        /\ \A r \in Omitted, i \in 1..Len(hits) : bm25[r] >= bm25[hits[i]]

\* The limit cut the list to the later document, whose score is the lower.
C11_Witness ==
    /\ called /\ error = "none" /\ limit = 1
    /\ hits = <<2>> /\ Omitted = {1} /\ bm25[2] < bm25[1]

(***************************************************************************)
(* C12: for every text x, tokenizing the space-joined tokens of x gives    *)
(* the token sequence of x; tokenizing never fails, and the empty text     *)
(* gives the empty sequence.                                               *)
(***************************************************************************)
C12_TokenizeIdempotent ==
    /\ tk_pc = "retokenized" => tk_again = tk_tokens
    /\ (tk_pc # "input" /\ tk_text = <<>>) => tk_tokens = <<>>
    /\ tk_pc # "input" =>
          \A i \in 1..Len(tk_tokens) :
              /\ tk_tokens[i] # <<>>
              /\ \A c \in 1..Len(tk_tokens[i]) : tk_tokens[i][c] \in AsciiAlnum

\* A text with punctuation and a non-ASCII letter that gave two tokens,
\* tokenized again.
C12_Witness ==
    /\ tk_pc = "retokenized" /\ Len(tk_tokens) = 2 /\ tk_again = tk_tokens
    /\ \E i \in 1..Len(tk_text) : tk_text[i] \notin AsciiAlnum \cup {" "}

(***************************************************************************)
(* Vocabulary of the properties of the CLI.                                *)
(***************************************************************************)
\* The query of the invocation and the words after its first.
RanQuery == CliQuery(cli.argv)
RanSearch == cli.ran /\ RanQuery # <<>> /\ ~IsOpenCommand(RanQuery)
RanOpen == cli.ran /\ IsOpenCommand(RanQuery)
OpenArgs == SelectSeq(Tail(RanQuery), LAMBDA w : w # " ")

(***************************************************************************)
(* C13: a search on a store path that does not exist fails with            *)
(* IndexNotFound before a handle is opened, so the failed search creates   *)
(* no store file; the CLI prints it as "Error: ..." (as a JSON error       *)
(* object under --json) and returns 2.                                     *)
(***************************************************************************)
C13_MissingStoreIndexNotFound ==
    [][(~db_exists /\ called') =>
          /\ error' = "FileNotFoundError"
          /\ ~db_exists'
          /\ cli'.connects = 0
          /\ cli'.rc = 2
          /\ cli'.message = "FileNotFoundError"
          /\ cli'.printed = IF cli'.json THEN <<"json error">> ELSE <<"Error:">>]_vars

\* A text search on a missing store has returned 2 and left no file.
C13_Witness ==
    /\ cli.ran /\ ~cli.json /\ called /\ ~db_exists
    /\ error = "FileNotFoundError" /\ cli.rc = 2 /\ cli.printed = <<"Error:">>

(***************************************************************************)
(* C14: every single-shot invocation of the CLI that goes to the store     *)
(* (text search, --json search, :open <pid>), whatever the store, returns  *)
(* an integer status: no store-level error leaves main as an exception.    *)
(***************************************************************************)
C14_NoExceptionLeavesMain ==
    (cli.ran /\ cli.searches + cli.connects > 0) =>
        (cli.raised = "none" /\ cli.rc \in {0, 1, 2})

(***************************************************************************)
(* C15: ":open <pid>" with an integer pid looks the URL up in the metadata *)
(* row of that pid, with no search: it returns 1 and opens nothing when    *)
(* the pid has no row or an empty URL; otherwise it opens that row's URL   *)
(* and nothing else, and returns 0 when the browser reports success.       *)
(***************************************************************************)
OpenedPid == /\ RanOpen /\ ~shlex_split(RanQuery).raises
             /\ Len(shlex_split(RanQuery).parts) >= 2
             /\ IsInt(shlex_split(RanQuery).parts[2])
             /\ cli.connects > 0

C15_OpenResolvesUrlByPid ==
    OpenedPid =>
        LET pid == ToInt(shlex_split(RanQuery).parts[2])
            row == {m \in meta : m.pid = pid}
        IN /\ cli.searches = 0
           /\ (row = {} \/ \E m \in row : m.url = "") =>
                 (cli.rc = 1 /\ cli.browser = <<>>)
           /\ (row # {} /\ \A m \in row : m.url # "") =>
                 /\ \A m \in row : cli.url = m.url
                 /\ \A i \in 1..Len(cli.browser) : cli.browser[i] = cli.url
                 /\ cli.printed[Len(cli.printed)] = "Opened" => cli.rc = 0

(***************************************************************************)
(* C16: a one-shot ":open" whose argument is missing or is no integer      *)
(* returns 2 with "Usage: :open <pid>" or "PID must be an integer." and    *)
(* opens neither the store nor a browser.                                  *)
(***************************************************************************)
C16_OpenBadArgumentReturns2 ==
    (RanOpen /\ (OpenArgs = <<>> \/ OpenArgs[1] \notin DOMAIN IntLiteral)) =>
        /\ cli.rc = 2
        /\ cli.printed = IF OpenArgs = <<>> THEN <<"Usage: :open <pid>">>
                         ELSE <<"PID must be an integer.">>
        /\ cli.connects = 0
        /\ cli.browser = <<>>

(***************************************************************************)
(* C17: with --json in single-shot mode main prints one JSON array with    *)
(* one object per Result that search returned, in that order and with the  *)
(* ten fields of the Result, and returns 0; when search raises it prints a *)
(* JSON object with an "error" key and returns 2.                          *)
(***************************************************************************)
JsonPrinted ==
    /\ cli.searches = 1 /\ called
    /\ error = "none" =>
          /\ cli.printed = <<"json array">>
          /\ cli.json_rows = results
          /\ cli.rc = 0
    /\ error # "none" =>
          /\ cli.printed = <<"json error">>
          /\ cli.message = error
          /\ cli.rc = 2

C17_JsonOutput == (cli.ran /\ cli.json) => JsonPrinted

\* C17 as amended: the same for every --json invocation whose query, joined
\* and stripped, is not empty and does not start with ":open".
C17_JsonOutputOfSearch == (RanSearch /\ cli.json) => JsonPrinted

\* A --json search that printed two objects.
C17_Witness ==
    /\ RanSearch /\ cli.json /\ error = "none"
    /\ Len(cli.json_rows) = 2 /\ cli.json_rows = results /\ cli.rc = 0

(***************************************************************************)
(* C18: in single-shot mode main calls search exactly once, with the       *)
(* positional words joined by single spaces and with the --limit value,    *)
(* prints every returned result (pid, name, url) and returns 0 whenever    *)
(* search returns, with or without results.                                *)
(***************************************************************************)
EveryResultPrinted ==
    IF cli.json THEN cli.json_rows = results
    ELSE /\ Len(cli.text_rows) = Len(results)
         /\ \A i \in 1..Len(results) :
               /\ cli.text_rows[i].pid = results[i].pid
               /\ cli.text_rows[i].name = results[i].name
               /\ cli.text_rows[i].url = results[i].url

C18_SingleShotSearchesOnce ==
    cli.ran =>
        /\ cli.searches = 1 /\ called
        /\ query = cli.argv /\ limit = cli.limit
        /\ error = "none" => (cli.rc = 0 /\ EveryResultPrinted)

\* C18 as amended: when the joined words, stripped of the whitespace at
\* both ends, are not empty and do not start with ":open", main calls
\* search exactly once with that stripped text and the --limit value,
\* prints every returned result and returns 0 whenever search returns.
C18_SearchQueryCallsSearchOnce ==
    RanSearch =>
        /\ cli.searches = 1 /\ called
        /\ query = Strip(cli.argv) /\ limit = cli.limit
        /\ error = "none" => (cli.rc = 0 /\ EveryResultPrinted)

\* A text search of two arguments, one of them blank, with a limit of 1: it
\* printed one result of the two that match.
C18_Witness ==
    /\ RanSearch /\ ~cli.json /\ Len(cli.argv) = 2 /\ query # cli.argv
    /\ error = "none" /\ cli.rc = 0 /\ limit = 1
    /\ Len(results) = 1 /\ Len(cli.text_rows) = 1
    /\ Cardinality(DOMAIN bm25) = 2

(***************************************************************************)
(* C19: a Builder run that does not complete (the catalog cannot be read   *)
(* or parsed, or a record raises) leaves the store as it was before the    *)
(* run: the same file, the same tables, the same rows, also when there was *)
(* no file or no table before.                                             *)
(***************************************************************************)
C19_FailedRunLeavesStore ==
    (pc = "idle" /\ exit \in {"1", "3"}) => Store = old

(***************************************************************************)
(* C20: a record whose id is missing or non-numeric adds one document to   *)
(* docs and neither a metadata row nor a mapping row, so that no search    *)
(* returns a result for it.                                                *)
(***************************************************************************)
C20_MalformedRecordOnlyIndexed ==
    CommittedRun =>
        /\ Len(docs) = Len(old.docs) + Len(rows)
        /\ \A k \in 1..Len(rows) :
              Malformed(rows[k]) =>
                 /\ docs[Len(old.docs) + k].name = rows[k].product_name
                 /\ ~\E dm \in docs_map : dm.rowid = Len(old.docs) + k
                 /\ ~Returned(k)

(***************************************************************************)
(* scripts/build_index.py main() on catalogs in which ids repeat and       *)
(* prices are unusual: records with the id 0 as a number and as a string,  *)
(* records with the id "1", a record without id and with the price "free", *)
(* and a record with the price -5.0.  The run is the one of Spec, with     *)
(* these catalogs.                                                         *)
(***************************************************************************)
RecZero == Product(IntV(0), <<"a">>, <<>>, IntV(100), IntV(1), "u7")
RecZeroStr == Product(StrV("0"), <<"b">>, <<>>, StrV("2"), StrV("in stock"), "u8")

RecNegative == Product(IntV(2), <<"b">>, <<>>, IntV(-500), IntV(1), "u9")
RecFree == Product(IntV(42), <<"a">>, <<>>, StrV("free"), IntV(1), "u10")

CatalogRecords == {RecZero, RecZeroStr, RecFeather, RecDup, RecNoId,
                   RecNegative, RecFree}
CatalogsOf(n) == SeqsUpTo(CatalogRecords, n)

\* rows = the list, or the list under "products"; cur = conn.cursor()
LoadJsonCatalog ==
    /\ pc = "populate?" /\ use_raw_json
    /\ Len(docs) < MaxRecords
    /\ rows' \in CatalogsOf(MaxRecords - Len(docs))
    /\ count' = 0
    /\ wdocs' = docs /\ wmeta' = meta /\ wmap' = docs_map
    /\ pc' = "loop"
    /\ UNCHANGED <<fts5, store_vars, use_raw_json, runs, exit, old>>
    /\ NoSearch
    /\ UNCHANGED <<cli_vars, tok_vars, pipe_vars, repl_vars>>

NextCatalogs ==
    \/ BuildNoInput
    \/ BuildStart
    \/ EnsureFts5Missing
    \/ EnsureFts5
    \/ CreateDocs
    \/ CreateMeta
    \/ CreateDocsMap
    \/ SkipPopulate
    \/ LoadJsonFails
    \/ LoadJsonCatalog
    \/ LoopRecord
    \/ Commit

SpecCatalogs == Init /\ [][NextCatalogs]_vars

(***************************************************************************)
(* C21: when several records of one catalog carry the same valid pid, the  *)
(* run commits, and the single metadata row of that pid holds the url,     *)
(* price, stock, date_added and discontinue_status that the Builder stores *)
(* for the last such record in catalog order.                              *)
(***************************************************************************)
\* The records of the catalog that carry the valid pid p.
Carrying(p) == {k \in 1..Len(rows) : /\ WellFormedId(rows[k].product_id)
                                      /\ ExtractPid(rows[k].product_id) = p}

\* The largest number of a non-empty set of record numbers.
LastOf(K) == CHOOSE k \in K : \A j \in K : j <= k

C21_DuplicatePidLastWriteWins ==
    LoadedRunEnded =>
        \A p \in {ExtractPid(rows[k].product_id) : k \in 1..Len(rows)} :
            Cardinality(Carrying(p)) > 1 =>
                /\ exit = "0"
                /\ {m \in meta : m.pid = p} = {MetaRow(p, rows[LastOf(Carrying(p))])}

(***************************************************************************)
(* scripts/update_catalog_and_indexes.py main(): the steps run one after   *)
(* the other as child processes.  The children are the download script,    *)
(* scripts/ingest_catalog.py, scripts/build_index.py (the Builder above,   *)
(* reading the files the earlier steps left) and scripts/refresh_stock.py. *)
(* build_index.py may also be run alone.                                   *)
(***************************************************************************)
PipeRecords == {RecFeather, RecBadId, RecSuper}
PipeCatalogs(n) == SeqsUpTo(PipeRecords, n)

\* steps = [...] for the two flags
plan_steps(skip_download, skip_refresh) ==
    (IF skip_download THEN <<>> ELSE <<"download">>)
    \o <<"ingest", "build_index">>
    \o (IF skip_refresh THEN <<>> ELSE <<"refresh_stock">>)

\* run_step that goes on to the next step whatever the child returned.
run_step_keeps_going(p, code) ==
    [p EXCEPT !.log = Append(@, code), !.child = "none"]

\* run_step once subprocess.run has returned: sys.exit(code) unless 0
run_step(p, code) ==
    IF code # 0
    THEN [p EXCEPT !.log = Append(@, code), !.child = "none",
                   !.on = FALSE, !.rc = code]
    ELSE [p EXCEPT !.log = Append(@, code), !.child = "none"]

\* The step whose child has been spawned.
CurrentStep == pipe.steps[Len(pipe.log) + 1]

\* The exit status of the Builder process.
ExitCode(e) == CASE e = "0" -> 0 [] e = "1" -> 1 [] e = "2" -> 2 [] e = "3" -> 3

InitPipeline ==
    /\ fts5 \in BOOLEAN
    /\ NothingBuilt
    /\ cli = NoCli
    /\ NoText
    /\ repl = NoRepl
    /\ pipe = NoPipe
    /\ raw_json \in {NoFile, Garbage} \cup {ListOf(c) : c \in PipeCatalogs(MaxDocs)}
    /\ parquet = FALSE
    /\ deps \in BOOLEAN

\* main: parse the flags, build the list of steps
PipelineStart ==
    /\ ~pipe.on /\ pc = "idle" /\ pipe.count < MaxRuns
    /\ \E sd \in BOOLEAN, sr \in BOOLEAN :
          pipe' = [on |-> TRUE, skip_download |-> sd, skip_refresh |-> sr,
                   steps |-> plan_steps(sd, sr), started |-> <<>>, log |-> <<>>,
                   child |-> "none", rc |-> -1, count |-> pipe.count + 1]
    /\ NoSearch
    /\ UNCHANGED <<fts5, store_vars, builder_vars, cli_vars, tok_vars,
                   repl_vars, raw_json, parquet, deps>>

\* run_step: print the label, subprocess.run starts the child
SpawnStep ==
    /\ pipe.on /\ pipe.child = "none" /\ Len(pipe.log) < Len(pipe.steps)
    /\ pipe' = [pipe EXCEPT !.started = Append(@, pipe.steps[Len(pipe.log) + 1]),
                            !.child = "spawned"]
    /\ NoSearch
    /\ UNCHANGED <<fts5, store_vars, builder_vars, cli_vars, tok_vars,
                   repl_vars, raw_json, parquet, deps>>

\* print("All steps completed."); return 0
AllStepsCompleted ==
    /\ pipe.on /\ pipe.child = "none" /\ Len(pipe.log) = Len(pipe.steps)
    /\ pipe' = [pipe EXCEPT !.on = FALSE, !.rc = 0]
    /\ NoSearch
    /\ UNCHANGED <<fts5, store_vars, builder_vars, cli_vars, tok_vars,
                   repl_vars, raw_json, parquet, deps>>

\* download_adafruit_catalog.py: the request fails (traceback, status 1), or
\* the catalog received is written as JSON.
DownloadExits ==
    /\ pipe.on /\ pipe.child = "spawned" /\ CurrentStep = "download"
    /\ \/ /\ raw_json' \in {ListOf(c) : c \in PipeCatalogs(MaxDocs - Len(docs))}
          /\ pipe' = run_step(pipe, 0)
       \/ /\ raw_json' = raw_json
          /\ pipe' = run_step(pipe, 1)
    /\ NoSearch
    /\ UNCHANGED <<fts5, store_vars, builder_vars, cli_vars, tok_vars,
                   repl_vars, parquet, deps>>

\* ingest_catalog.py main(): what it returns and whether the parquet exists
\* afterwards; written: df.to_parquet succeeded.
ingest_catalog(raw, has_deps, had_parquet, written) ==
    CASE raw.kind = "absent" -> [code |-> 2, parquet |-> had_parquet]
      [] raw.kind # "absent" /\ ~has_deps -> [code |-> 0, parquet |-> had_parquet]
      [] raw.kind = "garbage" /\ has_deps -> [code |-> 3, parquet |-> had_parquet]
      [] raw.kind = "list" /\ has_deps /\ written -> [code |-> 0, parquet |-> TRUE]
      [] OTHER -> [code |-> 4, parquet |-> had_parquet]

IngestExits ==
    /\ pipe.on /\ pipe.child = "spawned" /\ CurrentStep = "ingest"
    /\ \E written \in BOOLEAN :
          LET out == ingest_catalog(raw_json, deps, parquet, written)
          IN /\ parquet' = out.parquet
             /\ pipe' = run_step(pipe, out.code)
    /\ NoSearch
    /\ UNCHANGED <<fts5, store_vars, builder_vars, cli_vars, tok_vars,
                   repl_vars, raw_json, deps>>

\* refresh_stock.py main(): mkdir, print, return 0; a mkdir that raises
\* ends the child with status 1.
RefreshExits ==
    /\ pipe.on /\ pipe.child = "spawned" /\ CurrentStep = "refresh_stock"
    /\ \E code \in {0, 1} : pipe' = run_step(pipe, code)
    /\ NoSearch
    /\ UNCHANGED <<fts5, store_vars, builder_vars, cli_vars, tok_vars,
                   repl_vars, raw_json, parquet, deps>>

\* build_index.py main() up to sqlite3.connect, on the files as they are:
\* return 2 when neither catalog exists, else use_raw_json = no parquet.
build_index_start ==
    /\ pc = "idle" /\ runs < MaxRuns
    /\ runs' = runs + 1
    /\ old' = Store
    /\ rows' = <<>>
    /\ count' = 0
    /\ use_raw_json' = ~parquet
    /\ IF ~parquet /\ raw_json.kind = "absent"
       THEN exit' = "2" /\ pc' = "idle" /\ db_exists' = db_exists
       ELSE exit' = "none" /\ pc' = "ensure_fts5" /\ db_exists' = TRUE
    /\ NoSearch
    /\ UNCHANGED <<fts5, schema, docs, meta, docs_map, wdocs, wmeta, wmap,
                   cli_vars, tok_vars, repl_vars, raw_json, parquet, deps>>

\* The child of the "Rebuild indexes" step starts.
RebuildStarts ==
    /\ pipe.on /\ pipe.child = "spawned" /\ CurrentStep = "build_index"
    /\ build_index_start
    /\ pipe' = [pipe EXCEPT !.child = "running"]

\* python scripts/build_index.py, run by hand.
BuildIndexAlone ==
    /\ ~pipe.on
    /\ build_index_start
    /\ pipe' = pipe

\* rows = the list in the raw JSON file
LoadRawJson ==
    /\ pc = "populate?" /\ use_raw_json /\ raw_json.kind = "list"
    /\ Len(docs) + Len(raw_json.rows) <= MaxDocs
    /\ rows' = raw_json.rows
    /\ count' = 0
    /\ wdocs' = docs /\ wmeta' = meta /\ wmap' = docs_map
    /\ pc' = "loop"
    /\ UNCHANGED <<fts5, store_vars, use_raw_json, runs, exit, old>>
    /\ NoSearch
    /\ UNCHANGED <<cli_vars, tok_vars, pipe_vars, repl_vars>>

\* json.loads raises on the raw JSON file: return 3
LoadRawJsonFails ==
    /\ pc = "populate?" /\ use_raw_json /\ raw_json.kind = "garbage"
    /\ pc' = "idle"
    /\ exit' = "3"
    /\ UNCHANGED <<fts5, store_vars, use_raw_json, rows, count,
                   wdocs, wmeta, wmap, runs, old>>
    /\ NoSearch
    /\ UNCHANGED <<cli_vars, tok_vars, pipe_vars, repl_vars>>

\* subprocess.run returns the Builder's status to run_step.
RebuildExits ==
    /\ pipe.on /\ pipe.child = "running" /\ pc = "idle"
    /\ pipe' = run_step(pipe, ExitCode(exit))
    /\ NoSearch
    /\ UNCHANGED <<fts5, store_vars, builder_vars, cli_vars, tok_vars,
                   repl_vars, raw_json, parquet, deps>>

NextPipeline ==
    \/ PipelineStart
    \/ SpawnStep
    \/ DownloadExits
    \/ IngestExits
    \/ RebuildStarts
    \/ BuildIndexAlone
    \/ EnsureFts5Missing
    \/ EnsureFts5
    \/ CreateDocs
    \/ CreateMeta
    \/ CreateDocsMap
    \/ SkipPopulate
    \/ LoadRawJson
    \/ LoadRawJsonFails
    \/ LoopRecord
    \/ LoopRaises
    \/ Commit
    \/ RebuildExits
    \/ RefreshExits
    \/ AllStepsCompleted

SpecPipeline == InitPipeline /\ [][NextPipeline]_vars

(***************************************************************************)
(* C22: the update pipeline starts its steps in the order download,        *)
(* ingest, rebuild indexes, refresh stock (download and refresh left out   *)
(* when skipped), each step only after the previous one has exited 0; the  *)
(* first step that exits non-zero ends the pipeline with that step's exit  *)
(* code and no later step is started.                                      *)
(***************************************************************************)
\* The steps of the pipeline in the order of the claim.
StepOrder ==
    SelectSeq(<<"download", "ingest", "build_index", "refresh_stock">>,
              LAMBDA st : /\ ~(st = "download" /\ pipe.skip_download)
                          /\ ~(st = "refresh_stock" /\ pipe.skip_refresh))

C22_StepsInOrderStopAtFirstFailure ==
    pipe.count > 0 =>
        /\ Len(pipe.started) <= Len(StepOrder)
        /\ pipe.started = SubSeq(StepOrder, 1, Len(pipe.started))
        /\ Len(pipe.log) <= Len(pipe.started)
        /\ Len(pipe.started) <= Len(pipe.log) + 1
        /\ \A i \in 1..(Len(pipe.started) - 1) : pipe.log[i] = 0
        /\ \A i \in 1..Len(pipe.log) :
              pipe.log[i] # 0 =>
                 /\ ~pipe.on /\ pipe.rc = pipe.log[i]
                 /\ Len(pipe.started) = i
        /\ ~pipe.on =>
              \/ pipe.rc = 0 /\ pipe.started = StepOrder
                 /\ \A i \in 1..Len(pipe.log) : pipe.log[i] = 0
              \/ pipe.rc # 0 /\ pipe.log # <<>>
                 /\ pipe.log[Len(pipe.log)] = pipe.rc
        /\ (pipe.on /\ pipe.child = "running") => CurrentStep = "build_index"
        /\ (pipe.on /\ pc # "idle") => pipe.child = "running"

\* The rebuild step has failed on a record after download and ingest
\* succeeded: the pipeline has ended with its status, the refresh step was
\* planned and never started.
C22_Witness ==
    /\ ~pipe.on /\ pipe.rc = 1 /\ pipe.log = <<0, 0, 1>>
    /\ pipe.started = <<"download", "ingest", "build_index">>
    /\ Len(pipe.steps) = 4

(***************************************************************************)
(* C23: the Query Engine only reads: after any search call, whether it     *)
(* returned results, returned the empty sequence or raised, the store      *)
(* holds the relations and the rows it held before the call (and a store   *)
(* file exists exactly if one existed before).                             *)
(***************************************************************************)
C23_SearchOnlyReads ==
    [][(~called /\ called') =>
          /\ db_exists' = db_exists
          /\ schema' = schema
          /\ docs' = docs
          /\ meta' = meta
          /\ docs_map' = docs_map]_vars

\* A search without limit that returned two results from a built store.
C23_Witness ==
    /\ called /\ error = "none" /\ limit = -1 /\ Len(results) = 2
    /\ schema = AllTables /\ Len(docs) = 2

(***************************************************************************)
(* C24: within one search call the disjunctive fallback is executed        *)
(* exactly when the conjunctive expression, executed first, was rejected   *)
(* as malformed; when the fallback fails too, search raises that error     *)
(* rather than returning an empty result.                                  *)
(***************************************************************************)
\* The call got as far as executing the conjunctive statement.
ConjunctionExecuted == called /\ db_exists /\ has_fts5 /\ QueryTokens # <<>>

C24_FallbackOnlyOnMalformedExpression ==
    called =>
        /\ fallback <=> (ConjunctionExecuted /\ ~SyntaxOk(QueryTokens))
        /\ (fallback /\ schema # AllTables) =>
              (error = "OperationalError" /\ results = <<>>)

(***************************************************************************)
(* C25: the store handle a search call opens is released before the call   *)
(* returns or raises, on every path (no tokens, no full-text capability,   *)
(* match error on both attempts, success), and no handle is opened when    *)
(* the store path does not exist.                                          *)
(***************************************************************************)
Count(ev) == Cardinality({i \in 1..Len(handle) : handle[i] = ev})

C25_HandleReleasedOnEveryPath ==
    /\ ~called => handle = <<>>
    /\ (called /\ error = "FileNotFoundError") => handle = <<>>
    /\ (called /\ ~db_exists) => handle = <<>>
    /\ (called /\ db_exists) =>
          /\ Count("open") = 1 /\ Count("close") = 1
          /\ handle[1] = "open" /\ handle[Len(handle)] = "close"
          /\ Count("execute") = IF ~ConjunctionExecuted THEN 0
                                ELSE IF fallback THEN 2 ELSE 1

\* A call whose two statements both failed, its handle closed behind it.
C25_Witness ==
    /\ called /\ error = "OperationalError" /\ fallback
    /\ handle = <<"open", "has_fts5", "execute", "execute", "close">>

(***************************************************************************)
(* C26: every price the Builder stores in a metadata row is non-negative   *)
(* (and with it every Result.price, which search takes from that row); a   *)
(* price that cannot be parsed is stored as 0.0 and does not abort the     *)
(* run.                                                                    *)
(***************************************************************************)
\* A price that float() rejects.
Unparseable(v) == v.kind = "str" /\ v.s # "" /\ v.s \notin DOMAIN FloatLiteral

C26_StoredPriceNonNegative ==
    /\ \A m \in meta : m.price >= 0
    /\ LoadedRunEnded =>
          \A k \in 1..Len(rows) :
              (/\ WellFormedId(rows[k].product_id) /\ LastOfItsPid(k)
               /\ Unparseable(rows[k].product_price))
              => /\ exit = "0"
                 /\ \E m \in meta : /\ m.pid = ExtractPid(rows[k].product_id)
                                     /\ m.price = 0

(***************************************************************************)
(* core/db.py search() on a store at rest, with queries long enough to be  *)
(* expressions of the FTS5 query language: terms around an operator word.  *)
(***************************************************************************)
Expressions == SeqsUpTo({"a", "b", "NOT"}, MaxTokens)

SearchExpression ==
    /\ ~called
    /\ \E q \in Expressions, lim \in Limits :
         \E sc \in [Scored(Store, q) -> Scores] :
            LET out == search(Store, has_fts5, q, lim, sc)
            IN /\ query' = q
               /\ limit' = lim
               /\ results' = out.results
               /\ error' = out.error
               /\ fallback' = out.fallback
               /\ bm25' = sc
               /\ hits' = out.rowids
               /\ handle' = search_handle(Store, has_fts5, q, lim, sc)
               /\ db_exists' = (db_exists \/ out.connected)
               /\ schema' = probe_tables(schema, out.connected /\ has_fts5)
    /\ called' = TRUE
    /\ UNCHANGED <<fts5, docs, meta, docs_map, builder_vars,
                   cli_vars, tok_vars, pipe_vars, repl_vars>>

NextMatch == SearchExpression \/ Return

SpecMatch == InitCli /\ [][NextMatch]_vars

(***************************************************************************)
(* C27: matching is conjunctive: whenever the engine accepts the           *)
(* space-joined expression (no fallback taken), the document of every      *)
(* returned result holds every token of the query in one of its text       *)
(* fields.                                                                 *)
(***************************************************************************)
C27_EveryTokenInEveryResult ==
    (called /\ error = "none" /\ ~fallback) =>
        \A i \in 1..Len(hits), t \in 1..Len(QueryTokens) :
            Fold(QueryTokens[t]) \in DocTerms(docs[hits[i]])

(***************************************************************************)
(* C28: when a run of build_index (alone or as the rebuild step of the     *)
(* pipeline) exits 0 with full-text support available, the store holds a   *)
(* document, a mapping row and a metadata row for every valid-id record of *)
(* the current catalog, whether the run found the processed parquet that   *)
(* the ingest step wrote or the raw JSON.                                  *)
(***************************************************************************)
\* Store S holds a document of record r mapped to r's pid, and the
\* metadata row of that pid.
IndexedIn(S, r) ==
    \E d \in 1..Len(S.docs) :
        /\ S.docs[d].name = r.product_name
        /\ [rowid |-> d, pid |-> ExtractPid(r.product_id)] \in S.docs_map
        /\ \E m \in S.meta : m.pid = ExtractPid(r.product_id)

C28_RebuildIndexesCurrentCatalog ==
    [][(pc # "idle" /\ pc' = "idle" /\ exit' = "0" /\ fts5
        /\ raw_json.kind = "list") =>
          \A k \in 1..Len(raw_json.rows) :
              WellFormedId(raw_json.rows[k].product_id) =>
                  IndexedIn(Store', raw_json.rows[k])]_vars

(***************************************************************************)
(* C29: a ":open <pid>" lookup never changes the store; run against a      *)
(* store path that does not exist it does not create the store file, so    *)
(* that a search on a never-built path still fails with IndexNotFound      *)
(* after any number of lookups.                                            *)
(***************************************************************************)
C29_OpenNeverChangesStore ==
    [][(~cli.ran /\ cli'.ran /\ IsOpenCommand(CliQuery(cli'.argv))) =>
          /\ Store' = Store
          /\ ~db_exists =>
                \A q \in Queries, lim \in Limits :
                    search(Store', fts5, q, lim, <<>>).error = "FileNotFoundError"]_vars

(***************************************************************************)
(* core/cli.py _repl(): main() without query words starts the prompt loop. *)
(* A line is a sequence of words with one space between two of them; cli   *)
(* holds what the handling of the last line printed and opened.            *)
(***************************************************************************)
ReplWords == {"a", " ", "'", ":open", ":q", ":x", "1"}
ReplLines == SeqsUpTo(ReplWords, MaxArgs)

\* line.startswith(":")
IsCommand(ln) == ln # <<>> /\ ln[1] \in {":open", ":q", ":x"}

\* What the loop body makes of a command line: c is what it printed, next
\* is "prompt" (continue), "return" (return 0) or "raise" (an exception
\* leaves _repl).
repl_command(c, S, ln, dir_ok, browser) ==
    LET split == shlex_split(ln)
        cmd == split.parts[1]
    IN CASE split.raises ->
              [c |-> [c EXCEPT !.raised = "ValueError", !.rc = -1], next |-> "raise"]
         [] ~split.raises /\ cmd = <<":q">> -> [c |-> c, next |-> "return"]
         [] ~split.raises /\ cmd = <<":open">> /\ Len(split.parts) < 2 ->
              [c |-> [c EXCEPT !.printed = Append(@, "Usage: :open <pid>")],
               next |-> "prompt"]
         [] ~split.raises /\ cmd = <<":open">> /\ Len(split.parts) >= 2
               /\ ~IsInt(split.parts[2]) ->
              [c |-> [c EXCEPT !.printed = Append(@, "PID must be an integer.")],
               next |-> "prompt"]
         [] ~split.raises /\ cmd = <<":open">> /\ Len(split.parts) >= 2
               /\ IsInt(split.parts[2]) ->
              LET o == open_pid(c, S, ToInt(split.parts[2]), dir_ok, browser)
              IN [c |-> o, next |-> IF o.raised = "none" THEN "prompt" ELSE "raise"]
         [] OTHER ->
              [c |-> [c EXCEPT !.printed = Append(@, "Unknown command")],
               next |-> "prompt"]

\* The loop after a line has been handled.
repl_next(r, ln, next) ==
    CASE next = "prompt" -> [r EXCEPT !.prompts = @ + 1, !.line = ln]
      [] next = "return" ->
            [r EXCEPT !.prompts = @ + 1, !.line = ln, !.on = FALSE,
                      !.ended_by = "quit", !.rc = 0]
      [] OTHER ->
            [r EXCEPT !.prompts = @ + 1, !.line = ln, !.on = FALSE,
                      !.ended_by = "exception"]

\* main() with no query words: _repl(limit, db_path, no_browser)
ReplStart ==
    /\ repl = NoRepl
    /\ \E lim \in 1..MaxLimit, nb \in BOOLEAN :
          repl' = [on |-> TRUE, limit |-> lim, no_browser |-> nb, prompts |-> 0,
                   line |-> <<>>, ended_by |-> "none", rc |-> -1]
    /\ cli' = NoCli
    /\ NoSearch
    /\ UNCHANGED <<fts5, store_vars, builder_vars, tok_vars, pipe_vars>>

\* input() raises EOFError or KeyboardInterrupt: print(); return 0
ReplEndOfInput ==
    /\ repl.on
    /\ \E how \in {"eof", "interrupt"} :
          repl' = [repl EXCEPT !.on = FALSE, !.ended_by = how, !.rc = 0]
    /\ NoSearch
    /\ UNCHANGED <<fts5, store_vars, builder_vars, cli_vars, tok_vars, pipe_vars>>

\* if not line: continue
ReplBlankLine ==
    /\ repl.on /\ repl.prompts < MaxLines
    /\ \E ln \in ReplLines :
          /\ Strip(ln) = <<>>
          /\ repl' = repl_next(repl, ln, "prompt")
    /\ cli' = Quiet(<<>>, repl.limit, FALSE, repl.no_browser)
    /\ NoSearch
    /\ UNCHANGED <<fts5, store_vars, builder_vars, tok_vars, pipe_vars>>

\* if line.startswith(":"): ...
ReplCommand ==
    /\ repl.on /\ repl.prompts < MaxLines
    /\ \E ln \in ReplLines, dir_ok \in BOOLEAN, browser \in BrowserOutcomes :
          /\ IsCommand(Strip(ln))
          /\ LET out == repl_command(Quiet(<<>>, repl.limit, FALSE, repl.no_browser),
                                     Store, Strip(ln), dir_ok, browser)
             IN /\ cli' = out.c
                /\ repl' = repl_next(repl, ln, out.next)
    /\ db_exists' = (db_exists \/ cli'.connects > 0)
    /\ NoSearch
    /\ UNCHANGED <<fts5, schema, docs, meta, docs_map, builder_vars, tok_vars,
                   pipe_vars>>

\* _print_results(line, limit=limit, db_path=db_path)
ReplSearch ==
    /\ repl.on /\ repl.prompts < MaxLines
    /\ \E ln \in ReplLines :
          /\ Strip(ln) # <<>> /\ ~IsCommand(Strip(ln))
          /\ \E sc \in [Scored(Store, Strip(ln)) -> Scores] :
                LET out == search(Store, has_fts5, Strip(ln), repl.limit, sc)
                IN /\ cli' = print_results(Quiet(<<>>, repl.limit, FALSE,
                                                 repl.no_browser), out)
                   /\ query' = Strip(ln)
                   /\ limit' = repl.limit
                   /\ results' = out.results
                   /\ error' = out.error
                   /\ fallback' = out.fallback
                   /\ bm25' = sc
                   /\ hits' = out.rowids
                   /\ handle' = search_handle(Store, has_fts5, Strip(ln), repl.limit, sc)
                   /\ db_exists' = (db_exists \/ out.connected)
                   /\ schema' = probe_tables(schema, out.connected /\ has_fts5)
          /\ repl' = repl_next(repl, ln, "prompt")
    /\ called' = TRUE
    /\ UNCHANGED <<fts5, docs, meta, docs_map, builder_vars, tok_vars, pipe_vars>>

NextRepl ==
    \/ ReplStart
    \/ ReplEndOfInput
    \/ ReplBlankLine
    \/ ReplCommand
    \/ ReplSearch

SpecRepl == InitCli /\ [][NextRepl]_vars

(***************************************************************************)
(* C30: the prompt loop ends only on :q, :quit, :exit, end of input or a   *)
(* keyboard interrupt, and then returns 0; every other line (blank, a      *)
(* search that fails or finds nothing, an unknown command, :open with a    *)
(* missing, non-integer or unknown pid, a command line that cannot be      *)
(* split) is answered with a message or nothing and followed by the next   *)
(* prompt.                                                                 *)
(***************************************************************************)
C30_ReplEndsOnlyOnQuit ==
    /\ (~repl.on /\ repl.ended_by # "none") =>
          /\ repl.ended_by \in {"quit", "eof", "interrupt"}
          /\ repl.rc = 0
          /\ cli.raised = "none"
    /\ (~repl.on /\ repl.ended_by = "quit") =>
          (Strip(repl.line) # <<>> /\ Strip(repl.line)[1] = ":q")

====
